---- MODULE Spec2Model ----
(***************************************************************************)
(* zipline-cf-cache-cleaner: a Cloudflare worker in front of a Zipline     *)
(* file host.  One inbound request is handled by `fetch` (src/index.ts);   *)
(* the handler suspends at every network call, so every action below is    *)
(* the code between two awaits.  Strings that the code takes apart (the    *)
(* request path, file names) are sequences of tokens; "/api/user/files" is *)
(* one token because every pattern of the code contains it whole.          *)
(***************************************************************************)
EXTENDS Integers, Sequences, FiniteSets, TLC

VARIABLES
    request,      \* the inbound request: method, url.pathname, Authorization
    pc,           \* the await the handler is suspended at; "done" and "threw" end it
    calls,        \* every outbound fetch issued so far, in order
    recent,       \* what GET /api/user/recent answered (None before)
    response,     \* the upstream response to the relayed or synthesized call
    bodyUsed,     \* response.json() was called on `response` itself, not on a clone
    purgeResult,  \* purgeResult.success of the purge API's answer ("none" before)
    returned,     \* the Response the handler resolved with (None before)
    exception,    \* what the handler rejected with ("none" unless pc = "threw")
    log,          \* console.error calls, in order
    other         \* a second invocation of the handler, suspended (None: there is none)

vars == <<request, pc, calls, recent, response, bodyUsed, purgeResult, returned,
          exception, log, other>>

\* Longest recent-files listing the upstream answers with in the model.
MaxRecent == 2

None == [kind |-> "none"]
Undefined == <<"undefined">>

----------------------------------------------------------------------------
\* Strings

F == "/api/user/files"
Digits == {"0", "1", "2", "3", "4", "5", "6", "7", "8", "9"}
NonZeroDigits == Digits \ {"0"}
\* Tokens of [^/?]: everything that holds neither a slash nor a question mark.
SegmentTokens == Digits \cup {"id", "name", "a.png", "b.png", "x"}

PathFiles == <<F>>
PathV4File == <<F, "/", "x">>
PathId == <<F, "/", "id", "/", "4", "2">>
PathIdZero == <<F, "/", "id", "/", "0">>
PathIdTrailing == <<F, "/", "id", "/", "7", "x">>
PathIdPrefixed == <<"/", "x", F, "/", "id", "/", "7">>
PathName == <<F, "/", "name", "/", "a.png">>
PathNameTrailing == <<F, "/", "name", "/", "b.png", "/", "x">>
PathNameEmpty == <<F, "/", "name", "/">>
PathOther == <<"/", "x">>

Paths == {PathFiles, PathV4File, PathId, PathIdZero, PathIdTrailing,
          PathIdPrefixed, PathName, PathNameTrailing, PathNameEmpty, PathOther}

\* The pattern literal `lit` occurs in s at position i.
OccursAt(lit, s, i) ==
    /\ i + Len(lit) - 1 <= Len(s)
    /\ \A k \in 1..Len(lit) : s[i + k - 1] = lit[k]

\* Last index of the longest run of tokens of class C starting at j (j-1: no run).
RunEnd(s, j, C) ==
    CHOOSE e \in (j - 1)..Len(s) :
        /\ \A k \in j..e : s[k] \in C
        /\ (e = Len(s) \/ s[e + 1] \notin C)

NoMatch == [kind |-> "null"]

\* String.prototype.match with a non-global pattern: the leftmost match, the
\* quantifier greedy; [0] is the whole match, [1] the group.  The pattern is
\* `lit` followed by a group of one token of First and a run of tokens of Rest.
MatchPattern(lit, First, Rest, s) ==
    LET starts == {i \in 1..Len(s) :
                      /\ OccursAt(lit, s, i)
                      /\ i + Len(lit) <= Len(s)
                      /\ s[i + Len(lit)] \in First}
    IN  IF starts = {} THEN NoMatch
        ELSE LET i == CHOOSE m \in starts : \A n \in starts : m <= n
                 g == i + Len(lit)
                 e == RunEnd(s, g + 1, Rest)
             IN  [kind |-> "match", whole |-> SubSeq(s, i, e), group |-> SubSeq(s, g, e)]

\* url.pathname.match("/api/user/files/id/([1-9][0-9]*)")
MatchFileId(pathname) ==
    MatchPattern(<<F, "/", "id", "/">>, NonZeroDigits, Digits, pathname)

\* url.pathname.match("/api/user/files/name/([^/?]+)")
MatchFileName(pathname) ==
    MatchPattern(<<F, "/", "name", "/">>, SegmentTokens, SegmentTokens, pathname)

DigitValue(d) ==
    CASE d = "0" -> 0 [] d = "1" -> 1 [] d = "2" -> 2 [] d = "3" -> 3 [] d = "4" -> 4
      [] d = "5" -> 5 [] d = "6" -> 6 [] d = "7" -> 7 [] d = "8" -> 8 [] d = "9" -> 9

RECURSIVE DecimalValue(_)
DecimalValue(ds) ==
    IF ds = <<>> THEN 0
    ELSE 10 * DecimalValue(SubSeq(ds, 1, Len(ds) - 1)) + DigitValue(ds[Len(ds)])

NaN == [nan |-> TRUE, value |-> 0]
Number(n) == [nan |-> FALSE, value |-> n]

\* parseInt: the value of the leading digits, NaN when the text starts with none.
parseInt(s) ==
    LET e == RunEnd(s, 1, Digits)
    IN  IF e = 0 THEN NaN ELSE Number(DecimalValue(SubSeq(s, 1, e)))

\* JSON.stringify of a number: NaN is written as null.
JsonNumber(n) == IF n.nan THEN [null |-> TRUE, value |-> 0] ELSE [null |-> FALSE, value |-> n.value]

----------------------------------------------------------------------------
\* The inbound request and what the three external services may answer

\* request.headers.get("Authorization") of a request without the header.
NoHeader == "(null)"
Token == "token"
Authorizations == {NoHeader, "", Token}

\* Mutant of Truthy: only a missing header is rejected, an empty one passes.
Truthy_NotNull(value) == value # NoHeader

\* JS truthiness of a header value: null and "" are falsy.
Truthy(value) == value \notin {NoHeader, ""}

Methods == {"GET", "DELETE"}
Requests == [method : Methods, pathname : Paths, authorization : Authorizations]

NameA == <<"a.png">>
NameB == <<"b.png">>
FileNames == {NameA, NameB}

\* JSON.parse of a body: a SyntaxError (an empty or non-JSON text), null, a
\* string, or an object with some of the fields the code looks for.
InvalidBody == [kind |-> "invalid"]
NullBody == [kind |-> "null"]
StringBody == [kind |-> "string"]
ObjectBodies == [kind : {"object"}, fields : SUBSET {"id", "count", "embed", "tags"},
                 name : FileNames \cup {Undefined}]
Bodies == {InvalidBody, NullBody, StringBody} \cup ObjectBodies

JsonType == "application/json; charset=utf-8"
ContentTypes == {JsonType, "text/html", NoHeader}
Statuses == {200, 404}

NetworkError == [kind |-> "error"]
UpstreamResponses ==
    [kind : {"response"}, status : Statuses, contentType : ContentTypes,
     body : Bodies, purgeHeader : {NoHeader}]

\* GET /api/user/recent: an array of file records.  The name of a record is
\* whatever upstream stored; NameAsPath is a name that holds slashes.
NameAsPath == PathName
RecentIds == {42, 7}
RecentRecords == [id : RecentIds, name : FileNames \cup {NameAsPath}]
RecentLists == UNION {[1..n -> RecentRecords] : n \in 0..MaxRecent}
RecentResponses ==
    [kind : {"response"}, status : Statuses, contentType : {JsonType},
     body : {InvalidBody} \cup [kind : {"array"}, items : RecentLists],
     purgeHeader : {NoHeader}]

\* POST .../purge_cache: CfCachePurgeResponse, or a body that is no JSON.
PurgeResponses ==
    [kind : {"response"}, status : {200, 500},
     body : {InvalidBody} \cup [kind : {"object"}, success : {"true", "false"}]]

TelegramResponses == [kind : {"response"}, status : {200, 500}]

\* new Response('{"error":"File not found in recent files"}', { status: 404 })
NotFoundResponse ==
    [kind |-> "response", status |-> 404, contentType |-> "text/plain;charset=UTF-8",
     body |-> [kind |-> "text", text |-> "{\"error\":\"File not found in recent files\"}"],
     purgeHeader |-> NoHeader]

----------------------------------------------------------------------------
\* Pure helpers of the handler

\* response.headers.get("Content-Type")?.includes("application/json")
IncludesJson(contentType) == contentType = JsonType

\* Mutant of StartsWithFilesSlash: the prefix without its trailing slash.
StartsWithFiles(pathname) == OccursAt(<<F>>, pathname, 1)

\* pathname.startsWith("/api/user/files/")
StartsWithFilesSlash(pathname) == OccursAt(<<F, "/">>, pathname, 1)

\* Mutant of UrlToPurge: the URL is built from file.url ("/u/<name>"), as in
\* the line the source keeps commented out.
UrlToPurge_FromFileUrl(file) ==
    <<"ZIPLINE_URL_BASE", "/", "u", "/">>
        \o (IF file.kind = "object" THEN file.name ELSE Undefined)

\* `${env.ZIPLINE_URL_BASE}/${file.name}`; a value without a name field gives
\* the text "undefined".
UrlToPurge(file) ==
    <<"ZIPLINE_URL_BASE", "/">> \o (IF file.kind = "object" THEN file.name ELSE Undefined)

responseWithPurgeHeader(resp, purgeOutcome) ==
    IF purgeOutcome = "null" THEN resp
    ELSE [resp EXCEPT !.purgeHeader = IF purgeOutcome = "true" THEN "ok" ELSE "fail"]

\* recentFiles.find(file => file.name === fileName) || null
FindByName(items, fileName) ==
    LET hits == {i \in 1..Len(items) : items[i].name = fileName}
    IN  IF hits = {} THEN NoMatch
        ELSE [kind |-> "file", file |-> items[CHOOSE i \in hits : \A j \in hits : i <= j]]

\* Lines 238-247: the generation of a relayed response.  "throw" when
\* json() or the `in` operator throws.
DetectV4(resp) ==
    IF ~IncludesJson(resp.contentType) THEN "v3"
    ELSE IF resp.body.kind \in {"invalid", "string"} THEN "throw"
    ELSE IF resp.body.kind = "object" /\ "tags" \in resp.body.fields THEN "v4"
    ELSE "v3"

----------------------------------------------------------------------------
\* Outbound calls

\* fetch(request): the inbound request itself goes to the origin.
RelayCall(req) ==
    [api |-> "upstream", method |-> req.method, pathname |-> req.pathname,
     authorization |-> req.authorization, body |-> [kind |-> "inbound"]]

\* Lines 121-127.
RecentCall(ziplineToken) ==
    [api |-> "upstream", method |-> "GET", pathname |-> <<"/api/user/recent?take=50">>,
     authorization |-> ziplineToken, body |-> [kind |-> "none"]]

\* Lines 142-150: body JSON.stringify({ id: fileId }).
DeleteCall(fileId, ziplineToken) ==
    [api |-> "upstream", method |-> "DELETE", pathname |-> <<F>>,
     authorization |-> ziplineToken, body |-> [kind |-> "id", id |-> JsonNumber(fileId)]]

\* Lines 162-174: body JSON.stringify({ files: [urlToPurge] }).
PurgeCall(file) == [api |-> "cloudflare", files |-> <<UrlToPurge(file)>>]

\* notify.telegramNotify(severity, subject, ...): lines 66-72 of notify.ts.
NotifyCall(severity, subject) ==
    [api |-> "telegram", severity |-> severity, subject |-> subject]

\* Line 214: parseInt(fileIdMatch[0]).
FileIdOf(fileIdMatch) == parseInt(fileIdMatch.whole)

\* Line 223: fileNameMatch[0].
FileNameOf(fileNameMatch) == fileNameMatch.whole

\* Lines 212-213 and 221-222: which branch of the handler a DELETE takes.
Route(req) ==
    IF MatchFileId(req.pathname).kind = "match" /\ Truthy(req.authorization) THEN "id"
    ELSE IF MatchFileName(req.pathname).kind = "match" /\ Truthy(req.authorization)
    THEN "name"
    ELSE "relay"

----------------------------------------------------------------------------
\* The handler

Init ==
    /\ request \in Requests
    /\ pc = "start"
    /\ calls = <<>>
    /\ recent = None
    /\ response = None
    /\ bodyUsed = FALSE
    /\ purgeResult = "none"
    /\ returned = None
    /\ exception = "none"
    /\ log = <<>>
    /\ other = None

Throw(e) ==
    /\ pc' = "threw"
    /\ exception' = e
    /\ returned' = returned

Resolve(resp) ==
    /\ pc' = "done"
    /\ returned' = resp
    /\ exception' = exception

\* Lines 193-199 as called on `resp`.  Line 194 hands response.body to the
\* Response constructor; the Fetch standard ("extract a body") has it throw
\* a TypeError for a ReadableStream that is disturbed, which it is once
\* json() was called on the response itself (line 152) and not on a clone.
ReturnWithPurgeHeader(resp, used, purgeOutcome) ==
    IF used THEN Throw("TypeError: body is disturbed")
    ELSE Resolve(responseWithPurgeHeader(resp, purgeOutcome))

\* Mutant of FetchNonDelete: the method test is lost and the request takes the
\* relay-then-reconcile path.
FetchNonDelete_Reconciled ==
    /\ pc = "start"
    /\ request.method # "DELETE"
    /\ calls' = Append(calls, RelayCall(request))
    /\ pc' = "relay"
    /\ UNCHANGED <<other, request, recent, response, bodyUsed, purgeResult, returned,
                   exception, log>>

\* Lines 204-205: anything but a DELETE is forwarded.
FetchNonDelete ==
    /\ pc = "start"
    /\ request.method # "DELETE"
    /\ calls' = Append(calls, RelayCall(request))
    /\ pc' = "forward"
    /\ UNCHANGED <<other, request, recent, response, bodyUsed, purgeResult, returned,
                   exception, log>>

\* The forwarded fetch settles; its promise is the handler's result.
ForwardSettles ==
    /\ pc = "forward"
    /\ \E r \in UpstreamResponses \cup {NetworkError} :
          IF r.kind = "error"
          THEN Throw("fetch failed") /\ response' = response
          ELSE Resolve(r) /\ response' = r
    /\ UNCHANGED <<other, request, calls, recent, bodyUsed, purgeResult, log>>

\* Mutant of FetchDeleteById: the purge call is issued together with the delete
\* call, without awaiting the answer.
FetchDeleteById_PurgeAtOnce ==
    /\ pc = "start"
    /\ request.method = "DELETE"
    /\ Route(request) = "id"
    /\ calls' = calls \o <<DeleteCall(FileIdOf(MatchFileId(request.pathname)),
                                      request.authorization),
                           PurgeCall(NullBody)>>
    /\ pc' = "delete"
    /\ UNCHANGED <<other, request, recent, response, bodyUsed, purgeResult, returned,
                   exception, log>>

\* Lines 212-215: DELETE /api/user/files/id/:id, up to the await of the
\* upstream delete call.
FetchDeleteById ==
    /\ pc = "start"
    /\ request.method = "DELETE"
    /\ Route(request) = "id"
    /\ calls' = Append(calls, DeleteCall(FileIdOf(MatchFileId(request.pathname)),
                                         request.authorization))
    /\ pc' = "delete"
    /\ UNCHANGED <<other, request, recent, response, bodyUsed, purgeResult, returned,
                   exception, log>>

\* Lines 221-224: DELETE /api/user/files/name/:name, up to the await of the
\* recent-files call.
FetchRecent ==
    /\ pc = "start"
    /\ request.method = "DELETE"
    /\ Route(request) = "name"
    /\ calls' = Append(calls, RecentCall(request.authorization))
    /\ pc' = "recent"
    /\ UNCHANGED <<other, request, recent, response, bodyUsed, purgeResult, returned,
                   exception, log>>

\* Line 233: any other DELETE is relayed.
FetchRelay ==
    /\ pc = "start"
    /\ request.method = "DELETE"
    /\ Route(request) = "relay"
    /\ calls' = Append(calls, RelayCall(request))
    /\ pc' = "relay"
    /\ UNCHANGED <<other, request, recent, response, bodyUsed, purgeResult, returned,
                   exception, log>>

\* Lines 129-138 and 225-227: the listing settles; not found gives the 404,
\* found issues the delete call for foundFile.id.
RecentSettles ==
    /\ pc = "recent"
    /\ \E r \in RecentResponses \cup {NetworkError} :
          IF r.kind = "error"
          THEN /\ Throw("fetch failed")
               /\ UNCHANGED <<calls, recent, log>>
          ELSE /\ recent' = r
               /\ IF r.status # 200
                  THEN /\ Resolve(NotFoundResponse)
                       /\ log' = Append(log, "Failed to get recent files")
                       /\ calls' = calls
                  ELSE IF r.body.kind = "invalid"
                  THEN /\ Throw("SyntaxError")
                       /\ UNCHANGED <<calls, log>>
                  ELSE LET foundFile == FindByName(r.body.items,
                                            FileNameOf(MatchFileName(request.pathname)))
                       IN  IF foundFile.kind = "null"
                           THEN /\ Resolve(NotFoundResponse)
                                /\ UNCHANGED <<calls, log>>
                           ELSE /\ calls' = Append(calls,
                                       DeleteCall(Number(foundFile.file.id),
                                                  request.authorization))
                                /\ pc' = "delete"
                                /\ UNCHANGED <<returned, exception, log>>
    /\ UNCHANGED <<other, request, response, bodyUsed, purgeResult>>

\* Lines 152-157 and 216-217 (228-229): the delete call settles; json() reads
\* the body of the response itself; a truthy file goes to the purge.
DeleteSettles ==
    /\ pc = "delete"
    /\ \E r \in UpstreamResponses \cup {NetworkError} :
          IF r.kind = "error"
          THEN /\ Throw("fetch failed")
               /\ UNCHANGED <<calls, response, bodyUsed>>
          ELSE /\ response' = r
               /\ bodyUsed' = TRUE
               /\ IF r.body.kind = "invalid"
                  THEN Throw("SyntaxError") /\ calls' = calls
                  ELSE IF r.body.kind = "null"
                  THEN ReturnWithPurgeHeader(r, bodyUsed', "null") /\ calls' = calls
                  ELSE /\ calls' = Append(calls, PurgeCall(r.body))
                       /\ pc' = "purge"
                       /\ UNCHANGED <<returned, exception>>
    /\ UNCHANGED <<other, request, recent, purgeResult, log>>

\* Lines 235-298 after the relayed fetch settled with `resp`: what the handler
\* does next.  Every json() here is on a clone.
Reconcile(pathname, resp) ==
    LET generation == DetectV4(resp)
        data == resp.body
        Return(outcome, errors) == [step |-> "return", outcome |-> outcome, log |-> errors]
    IN  IF generation = "throw"
        THEN [step |-> "throw",
              exception |-> IF data.kind = "invalid" THEN "SyntaxError"
                            ELSE "TypeError: in"]
        ELSE IF generation = "v4"
        THEN IF ~(StartsWithFilesSlash(pathname) /\ resp.status = 200)
             THEN Return("null", <<>>)
             ELSE IF "id" \in data.fields
             THEN [step |-> "purge"]
             ELSE Return("false", <<"Zipline v4 response doesn't make sense">>)
        ELSE IF ~(pathname = <<F>> /\ resp.status = 200)
             THEN Return("null", <<>>)
             ELSE IF data.kind = "invalid" THEN [step |-> "throw", exception |-> "SyntaxError"]
             ELSE IF data.kind = "null" THEN Return("null", <<>>)
             ELSE IF data.kind = "string" THEN [step |-> "throw", exception |-> "TypeError: in"]
             ELSE IF "id" \in data.fields THEN [step |-> "purge"]
             ELSE IF "count" \in data.fields THEN [step |-> "notify"]
             ELSE Return("false", <<"Zipline v3 response doesn't make sense">>)

\* Lines 233-298: the relayed fetch settles.
RelaySettles ==
    /\ pc = "relay"
    /\ \E r \in UpstreamResponses \cup {NetworkError} :
          IF r.kind = "error"
          THEN /\ Throw("fetch failed")
               /\ UNCHANGED <<calls, response, log>>
          ELSE LET next == Reconcile(request.pathname, r)
               IN  /\ response' = r
                   /\ IF next.step = "throw"
                      THEN Throw(next.exception) /\ UNCHANGED <<calls, log>>
                      ELSE IF next.step = "return"
                      THEN /\ ReturnWithPurgeHeader(r, bodyUsed, next.outcome)
                           /\ log' = log \o next.log
                           /\ calls' = calls
                      ELSE IF next.step = "purge"
                      THEN /\ calls' = Append(calls, PurgeCall(r.body))
                           /\ pc' = "purge"
                           /\ UNCHANGED <<returned, exception, log>>
                      ELSE /\ calls' = Append(calls,
                                  NotifyCall("warning", "Unable to purge CF cache for Zipline bulk deletion"))
                           /\ log' = Append(log, "Bulk deletion in Zipline v3, unable to purge cache")
                           /\ pc' = "bulkNotify"
                           /\ UNCHANGED <<returned, exception>>
    /\ UNCHANGED <<other, request, recent, bodyUsed, purgeResult>>

\* Mutant of PurgeSettles: the failure is notified as a `note` too.
PurgeSettles_AlwaysNote ==
    /\ pc = "purge"
    /\ \E r \in PurgeResponses \cup {NetworkError} :
          IF r.kind = "error"
          THEN /\ Throw("fetch failed")
               /\ UNCHANGED <<calls, purgeResult, log>>
          ELSE IF r.body.kind = "invalid"
          THEN /\ Throw("SyntaxError")
               /\ UNCHANGED <<calls, purgeResult, log>>
          ELSE /\ purgeResult' = r.body.success
               /\ IF r.body.success = "true"
                  THEN /\ calls' = Append(calls, NotifyCall("note", "Purged CF cache"))
                       /\ log' = log
                  ELSE /\ calls' = Append(calls,
                              NotifyCall("note", "Failed to purge CF cache"))
                       /\ log' = Append(log, "Failed to purge URL")
               /\ pc' = "purgeNotify"
               /\ UNCHANGED <<returned, exception>>
    /\ UNCHANGED <<other, request, recent, response, bodyUsed>>

\* Lines 175-188: the purge call settles; the notification is issued.
PurgeSettles ==
    /\ pc = "purge"
    /\ \E r \in PurgeResponses \cup {NetworkError} :
          IF r.kind = "error"
          THEN /\ Throw("fetch failed")
               /\ UNCHANGED <<calls, purgeResult, log>>
          ELSE IF r.body.kind = "invalid"
          THEN /\ Throw("SyntaxError")
               /\ UNCHANGED <<calls, purgeResult, log>>
          ELSE /\ purgeResult' = r.body.success
               /\ IF r.body.success = "true"
                  THEN /\ calls' = Append(calls, NotifyCall("note", "Purged CF cache"))
                       /\ log' = log
                  ELSE /\ calls' = Append(calls,
                              NotifyCall("warning", "Failed to purge CF cache"))
                       /\ log' = Append(log, "Failed to purge URL")
               /\ pc' = "purgeNotify"
               /\ UNCHANGED <<returned, exception>>
    /\ UNCHANGED <<other, request, recent, response, bodyUsed>>

\* notify.ts lines 74-78: a status other than 200 is logged, nothing more.
TelegramLog(r) ==
    IF r.status # 200 THEN <<"Failed to send Telegram message">> ELSE <<>>

\* Lines 190 and 217, 229, 262, 281: the notification of a purge settles and the
\* response goes out with purgeResult.success as the outcome.
PurgeNotifySettles ==
    /\ pc = "purgeNotify"
    /\ \E r \in TelegramResponses \cup {NetworkError} :
          IF r.kind = "error"
          THEN Throw("fetch failed") /\ log' = log
          ELSE /\ log' = log \o TelegramLog(r)
               /\ ReturnWithPurgeHeader(response, bodyUsed, purgeResult)
    /\ UNCHANGED <<other, request, calls, recent, response, bodyUsed, purgeResult>>

\* Lines 286-298: the notification of a bulk deletion settles.
BulkNotifySettles ==
    /\ pc = "bulkNotify"
    /\ \E r \in TelegramResponses \cup {NetworkError} :
          IF r.kind = "error"
          THEN Throw("fetch failed") /\ log' = log
          ELSE /\ log' = log \o TelegramLog(r)
               /\ ReturnWithPurgeHeader(response, bodyUsed, "false")
    /\ UNCHANGED <<other, request, calls, recent, response, bodyUsed, purgeResult>>

Next ==
    \/ FetchNonDelete
    \/ ForwardSettles
    \/ FetchDeleteById
    \/ FetchRecent
    \/ FetchRelay
    \/ RecentSettles
    \/ DeleteSettles
    \/ RelaySettles
    \/ PurgeSettles
    \/ PurgeNotifySettles
    \/ BulkNotifySettles

Spec == Init /\ [][Next]_vars

----------------------------------------------------------------------------
\* Two invocations of the handler.  The module keeps no state of its own
\* (index.ts has no module-level binding besides the imports), so all an
\* invocation has is its locals; the runtime runs one invocation at a time and
\* may resume the other one whenever the running one is at an await or ended.

\* The locals of the running invocation.
Local ==
    [request |-> request, pc |-> pc, calls |-> calls, recent |-> recent,
     response |-> response, bodyUsed |-> bodyUsed, purgeResult |-> purgeResult,
     returned |-> returned, exception |-> exception, log |-> log]

\* The locals of an invocation that has not started on `req`.
Fresh(req) ==
    [request |-> req, pc |-> "start", calls |-> <<>>, recent |-> None,
     response |-> None, bodyUsed |-> FALSE, purgeResult |-> "none",
     returned |-> None, exception |-> "none", log |-> <<>>]

\* Mutant of Resume: purgeResult lives outside the handler, one binding for
\* both invocations.
Resume_SharedPurgeResult ==
    /\ other # None
    /\ other.pc \notin {"done", "threw"}
    /\ other' = Local
    /\ request' = other.request
    /\ pc' = other.pc
    /\ calls' = other.calls
    /\ recent' = other.recent
    /\ response' = other.response
    /\ bodyUsed' = other.bodyUsed
    /\ purgeResult' = purgeResult
    /\ returned' = other.returned
    /\ exception' = other.exception
    /\ log' = other.log

\* The runtime suspends the running invocation and resumes the other one.
Resume ==
    /\ other # None
    /\ other.pc \notin {"done", "threw"}
    /\ other' = Local
    /\ request' = other.request
    /\ pc' = other.pc
    /\ calls' = other.calls
    /\ recent' = other.recent
    /\ response' = other.response
    /\ bodyUsed' = other.bodyUsed
    /\ purgeResult' = other.purgeResult
    /\ returned' = other.returned
    /\ exception' = other.exception
    /\ log' = other.log

\* The requests and the upstream answers of the two-invocation specification:
\* one request per route, JSON answers with a file record, an error object or
\* null, listings of at most one record.
ConcRequests ==
    {[method |-> "GET", pathname |-> PathFiles, authorization |-> Token]}
        \cup [method : {"DELETE"}, pathname : {PathFiles, PathId, PathName},
              authorization : {Token}]

ConcUpstreamResponses ==
    {r \in UpstreamResponses :
        /\ r.contentType = JsonType
        /\ r.body \in {NullBody,
                        [kind |-> "object", fields |-> {"id", "embed"}, name |-> NameA],
                        [kind |-> "object", fields |-> {}, name |-> Undefined]}}

ConcRecentResponses ==
    {r \in RecentResponses :
        r.body.kind = "array" =>
            /\ Len(r.body.items) <= 1
            /\ \A i \in 1..Len(r.body.items) : r.body.items[i].id = 42}

ConcAnswers ==
    /\ response \in {None} \cup ConcUpstreamResponses
    /\ recent \in {None} \cup ConcRecentResponses

InitConc ==
    /\ request \in ConcRequests
    /\ pc = "start"
    /\ calls = <<>>
    /\ recent = None
    /\ response = None
    /\ bodyUsed = FALSE
    /\ purgeResult = "none"
    /\ returned = None
    /\ exception = "none"
    /\ log = <<>>
    /\ other \in {Fresh(req) : req \in ConcRequests}

NextConc ==
    \/ Next /\ ConcAnswers'
    \/ Resume

SpecConc == InitConc /\ [][NextConc]_vars

----------------------------------------------------------------------------
\* Vocabulary of the properties

Terminal == pc \in {"done", "threw"}

IsPurge(c) == c.api = "cloudflare"
IsNotify(c) == c.api = "telegram"
IsUpstream(c) == c.api = "upstream"
IsDeleteCall(c) == c.api = "upstream" /\ c.body.kind = "id"
IsRecentCall(c) == c.api = "upstream" /\ c.method = "GET" /\ c.body.kind = "none"

PurgeCalls == SelectSeq(calls, IsPurge)
NotifyCalls == SelectSeq(calls, IsNotify)
UpstreamCalls == SelectSeq(calls, IsUpstream)
DeleteCalls == SelectSeq(calls, IsDeleteCall)
RecentCalls == SelectSeq(calls, IsRecentCall)

IsDelete == request.method = "DELETE"

\* The relayed DELETE got its upstream response.
RelayAnswered == IsDelete /\ Route(request) = "relay" /\ response # None

\* A custom route got the response to its synthesized delete call.
CustomAnswered == IsDelete /\ Route(request) \in {"id", "name"} /\ response # None

HeaderOf(success) == IF success = "true" THEN "ok" ELSE "fail"

\* The handler resolved with the upstream response: its status and its body.
ReturnedUpstream ==
    /\ pc = "done"
    /\ returned.status = response.status
    /\ returned.body = response.body
    /\ returned.contentType = response.contentType

----------------------------------------------------------------------------
\* C1: a DELETE that returns a response carries X-Cache-Purge-Result if and
\* only if the purge API was called while handling it.
C1_HeaderIffPurgeCalled ==
    (IsDelete /\ pc = "done") =>
        ((returned.purgeHeader # NoHeader) <=> (Len(PurgeCalls) > 0))

\* C2: whenever the purge API was called and answered with a success
\* indicator, and the notification was delivered or refused, the response
\* carries ok for success = true and fail for success = false, on the relay
\* path and on both custom routes.
C2_HeaderFromSuccess ==
    (Terminal /\ purgeResult # "none" /\ exception # "fetch failed") =>
        /\ pc = "done"
        /\ returned.purgeHeader = HeaderOf(purgeResult)

\* A status-200 payload with an id: a single-file deletion.
SingleFile(resp) ==
    /\ resp.status = 200
    /\ resp.body.kind = "object"
    /\ "id" \in resp.body.fields

\* The path has the deletion shape of the payload's generation: exactly
\* /api/user/files for A (no `tags`), under /api/user/files/ for B (`tags`).
DeletionShape(pathname, data) ==
    IF "tags" \in data.fields
    THEN Len(pathname) >= 2 /\ pathname[1] = F /\ pathname[2] = "/"
    ELSE pathname = <<F>>

\* C3: a successful single-file deletion response (a JSON response on the
\* relay path, of either generation, on its generation's deletion path; the
\* answer to the synthesized delete on a custom route) has exactly one purge
\* call, in every later state of the request, and the URL submitted is the
\* base URL, "/" and the name field.
C3_PurgedOnce ==
    ((\/ /\ RelayAnswered
          /\ IncludesJson(response.contentType)
          /\ SingleFile(response)
          /\ DeletionShape(request.pathname, response.body)
      \/ CustomAnswered /\ SingleFile(response))
     =>
        /\ Len(PurgeCalls) = 1
        /\ Len(PurgeCalls[1].files) = 1
        /\ (response.body.name \in FileNames =>
               PurgeCalls[1].files[1] = <<"ZIPLINE_URL_BASE", "/">> \o response.body.name))
    /\ Len(PurgeCalls) <= 1

\* C3 witness: a generation-B deletion whose single purge attempt reported
\* failure, and the request is over.
C3_Witness ==
    /\ pc = "done"
    /\ RelayAnswered
    /\ SingleFile(response)
    /\ "tags" \in response.body.fields
    /\ response.body.name = NameB
    /\ purgeResult = "false"
    /\ Len(PurgeCalls) = 1

\* C4: a request that is not a DELETE is forwarded once and the upstream
\* response comes back as it is: no purge-result header, no purge call, no
\* recent-files lookup, no notification.
C4_NonDeleteForwarded ==
    (request.method # "DELETE") =>
        /\ pc \in {"start", "forward", "done", "threw"}
        /\ (pc = "start" => calls = <<>>)
        /\ (pc # "start" =>
               calls = << [api |-> "upstream", method |-> request.method,
                           pathname |-> request.pathname,
                           authorization |-> request.authorization,
                           body |-> [kind |-> "inbound"]] >>)
        /\ (pc = "done" => returned = response /\ returned.purgeHeader = NoHeader)
        /\ (pc # "done" => returned = None)
        /\ log = <<>>

\* C4 witness: a GET of /api/user/files answered with a bulk-deletion shaped
\* body, returned untouched.
C4_Witness ==
    /\ request.method = "GET"
    /\ request.pathname = <<F>>
    /\ pc = "done"
    /\ response.status = 200
    /\ response.body.kind = "object"
    /\ response.body.fields = {"count"}
    /\ returned = response

\* The payload carries neither fingerprint, or both.
UnknownSchema(resp) ==
    /\ resp.body.kind = "object"
    /\ ("embed" \in resp.body.fields) <=> ("tags" \in resp.body.fields)

\* C5: a relayed DELETE whose payload is classified Unknown has no purge call
\* and no purge-result header, whatever its path, status and id.
C5_UnknownNoPurge ==
    (RelayAnswered /\ UnknownSchema(response)) =>
        /\ Len(PurgeCalls) = 0
        /\ (pc = "done" => returned.purgeHeader = NoHeader)

\* C6: a relayed DELETE of /api/user/files answered 200 with a bulk-deletion
\* payload (count, no id) makes no purge call, sends exactly one notification,
\* and returns the upstream status and body with no purge-result header.
C6_BulkNotApplicable ==
    (/\ RelayAnswered
     /\ Terminal
     /\ exception # "fetch failed"
     /\ request.pathname = <<F>>
     /\ response.status = 200
     /\ response.body.kind = "object"
     /\ "count" \in response.body.fields
     /\ response.body.fields \cap {"id", "tags"} = {})
    =>
        /\ Len(PurgeCalls) = 0
        /\ Len(NotifyCalls) = 1
        /\ ReturnedUpstream
        /\ returned.purgeHeader = NoHeader

\* C7: a relayed DELETE on a deletion-shaped path answered 200 with a body
\* that is absent, not JSON or unparsable does not throw: no purge, no
\* purge-result header, and the upstream response is returned.
C7_MalformedNoThrow ==
    (/\ RelayAnswered
     /\ \/ request.pathname = <<F>>
        \/ StartsWithFilesSlash(request.pathname)
     /\ response.status = 200
     /\ response.body.kind \in {"invalid", "null"})
    =>
        /\ pc = "done"
        /\ returned = response
        /\ Len(PurgeCalls) = 0

\* C8: once the purge step or the notification step was entered, whatever
\* the purge API and the notifier do, the request ends with the upstream
\* response (status and body) returned to the caller.
C8_UpstreamAlwaysReturned ==
    (IsDelete /\ Terminal /\ response # None /\ Len(PurgeCalls) + Len(NotifyCalls) > 0)
        => ReturnedUpstream

\* The name the by-name request asks for: the path segment after /name/.
RequestedName == MatchFileName(request.pathname).group

ListingAnswered ==
    /\ IsDelete
    /\ Route(request) = "name"
    /\ recent # None

ListingHolds(name) ==
    /\ recent.status = 200
    /\ recent.body.kind = "array"
    /\ \E i \in 1..Len(recent.body.items) : recent.body.items[i].name = name

\* C9: a by-name DELETE with a credential whose listing (status 200) holds a
\* record named exactly as requested issues, after the listing call, exactly
\* one upstream delete call carrying that record's id and the credential.
C9_DeleteByName ==
    (ListingAnswered /\ ListingHolds(RequestedName)) =>
        /\ Len(DeleteCalls) = 1
        /\ Len(calls) >= 2
        /\ IsRecentCall(calls[1])
        /\ IsDeleteCall(calls[2])
        /\ calls[2].authorization = request.authorization
        /\ ~calls[2].body.id.null
        /\ \E i \in 1..Len(recent.body.items) :
              /\ recent.body.items[i].name = RequestedName
              /\ recent.body.items[i].id = calls[2].body.id.value

\* C10: a by-name DELETE with a credential whose listing call answers non-200,
\* or whose list holds no record named exactly as requested, gets exactly 404
\* {"error":"File not found in recent files"}, and no delete, purge or
\* notification call is made.
C10_NotFound ==
    (/\ ListingAnswered
     /\ \/ recent.status # 200
        \/ recent.body.kind = "array" /\ ~ListingHolds(RequestedName))
    =>
        /\ pc = "done"
        /\ returned = NotFoundResponse
        /\ Len(DeleteCalls) = 0
        /\ Len(PurgeCalls) = 0
        /\ Len(NotifyCalls) = 0

\* The path is exactly /api/user/files/id/<positive integer>.
ExactIdPath(pathname) ==
    /\ Len(pathname) >= 5
    /\ SubSeq(pathname, 1, 4) = <<F, "/", "id", "/">>
    /\ pathname[5] \in NonZeroDigits
    /\ \A k \in 6..Len(pathname) : pathname[k] \in Digits

\* The path is exactly /api/user/files/name/<non-empty segment>.
ExactNamePath(pathname) ==
    /\ Len(pathname) >= 5
    /\ SubSeq(pathname, 1, 4) = <<F, "/", "name", "/">>
    /\ \A k \in 5..Len(pathname) : pathname[k] \in SegmentTokens

\* C11: a DELETE of /api/user/files/id/<n> with a credential issues one
\* upstream delete call to /api/user/files whose body is {id: n}, n the
\* integer of the path, with the caller's Authorization value.
C11_DeleteById ==
    (/\ IsDelete
     /\ ExactIdPath(request.pathname)
     /\ request.authorization = Token
     /\ pc # "start")
    =>
        /\ Len(DeleteCalls) = 1
        /\ IsDeleteCall(calls[1])
        /\ calls[1].method = "DELETE"
        /\ calls[1].pathname = <<F>>
        /\ calls[1].authorization = request.authorization
        /\ ~calls[1].body.id.null
        /\ calls[1].body.id.value =
               DecimalValue(SubSeq(request.pathname, 5, Len(request.pathname)))

\* C12: on the custom routes the purge API is called only for a recognizable
\* single-file payload; a non-200 answer or a body that is no file record
\* gets no purge call and no purge-result header.
C12_CustomPurgeOnlySingleFile ==
    (CustomAnswered /\ response.body.kind # "invalid" /\ ~SingleFile(response)) =>
        /\ Len(PurgeCalls) = 0
        /\ (pc = "done" => returned.purgeHeader = NoHeader)

\* C13: a DELETE on a custom-route path without a credential (no header, or
\* an empty one) makes no recent-files lookup and no synthesized delete call;
\* the request itself is forwarded on the relay path.
C13_NoCredentialRelays ==
    (/\ IsDelete
     /\ request.authorization \in {NoHeader, ""}
     /\ \/ MatchFileId(request.pathname).kind = "match"
        \/ MatchFileName(request.pathname).kind = "match")
    =>
        /\ Len(DeleteCalls) = 0
        /\ Len(RecentCalls) = 0
        /\ recent = None
        /\ pc \in {"start", "relay", "purge", "purgeNotify", "bulkNotify", "done", "threw"}
        /\ (pc # "start" =>
               calls[1] = [api |-> "upstream", method |-> "DELETE",
                           pathname |-> request.pathname,
                           authorization |-> request.authorization,
                           body |-> [kind |-> "inbound"]])

\* C13 witness: DELETE /api/user/files/id/42 with an empty Authorization
\* header, relayed and answered.
C13_Witness ==
    /\ IsDelete
    /\ request.pathname = PathId
    /\ request.authorization = ""
    /\ pc = "done"
    /\ Len(calls) = 1
    /\ returned = response

\* C14: once the purge API has answered, a failure to deliver the notification
\* neither raises nor changes the outcome: the relayed response goes out with
\* the header of the purge result.
C14_NotifyFailureHarmless ==
    (RelayAnswered /\ purgeResult # "none" /\ Terminal) =>
        /\ pc = "done"
        /\ exception = "none"
        /\ returned.purgeHeader = HeaderOf(purgeResult)
        /\ ReturnedUpstream

\* The relayed response is detected as generation B: declared JSON, an object
\* with `tags`.
GenerationB(resp) ==
    /\ resp.contentType = JsonType
    /\ resp.body.kind = "object"
    /\ "tags" \in resp.body.fields

\* The request path has the deletion shape of the detected generation.
DeletionPathOf(pathname, resp) ==
    IF GenerationB(resp)
    THEN Len(pathname) >= 2 /\ pathname[1] = F /\ pathname[2] = "/"
    ELSE pathname = <<F>>

IsOutcomeNote(c) ==
    /\ c.api = "telegram"
    /\ c.subject \in {"Purged CF cache", "Failed to purge CF cache"}

OutcomeNotes == SelectSeq(calls, IsOutcomeNote)

\* C16: a purge call the API answered with a success indicator is followed,
\* before the response is returned, by exactly one outcome notification: a
\* `note` after success, a `warning` after failure.  Without a purge call
\* there is no outcome notification.
C16_OneNotificationPerPurge ==
    /\ Len(OutcomeNotes) <= 1
    /\ (Len(PurgeCalls) = 0 \/ purgeResult = "none") => Len(OutcomeNotes) = 0
    /\ purgeResult # "none" =>
          /\ Len(PurgeCalls) = 1
          /\ Len(OutcomeNotes) = 1
          /\ Len(calls) >= 2
          /\ IsPurge(calls[Len(calls) - 1])
          /\ calls[Len(calls)] = OutcomeNotes[1]
          /\ OutcomeNotes[1].severity = (IF purgeResult = "true" THEN "note" ELSE "warning")
    /\ (pc = "done" /\ Len(PurgeCalls) > 0) => Len(OutcomeNotes) = 1

\* C16 witness: a relayed deletion whose purge was reported as failed has
\* returned, after one warning.
C16_Witness ==
    /\ RelayAnswered
    /\ pc = "done"
    /\ purgeResult = "false"
    /\ Len(PurgeCalls) = 1
    /\ NotifyCalls = <<NotifyCall("warning", "Failed to purge CF cache")>>

\* The call that deletes upstream: the relayed request or the synthesized
\* delete, not the recent-files listing.
IsDeletionCall(c) == IsUpstream(c) /\ ~IsRecentCall(c)

\* The one call the handler is waiting for is the last one it issued.
AwaitsLastCall ==
    /\ pc = "start" => calls = <<>>
    /\ pc # "start" => Len(calls) >= 1
    /\ pc \in {"forward", "relay"} => calls = <<RelayCall(request)>>
    /\ pc = "recent" => IsRecentCall(calls[Len(calls)]) /\ recent = None
    /\ pc = "delete" => IsDeleteCall(calls[Len(calls)]) /\ response = None
    /\ pc = "purge" => IsPurge(calls[Len(calls)]) /\ purgeResult = "none"
    /\ pc \in {"purgeNotify", "bulkNotify"} => IsNotify(calls[Len(calls)])

\* The purge call follows the answered deletion call, the notification follows
\* the answered purge call (the bulk warning: the answered deletion call), and
\* a response is returned with nothing left to wait for.
AwaitedInOrder ==
    /\ AwaitsLastCall
    /\ \A i \in 1..Len(calls) :
          /\ IsPurge(calls[i]) =>
                i > 1 /\ IsDeletionCall(calls[i - 1]) /\ response # None
          /\ IsNotify(calls[i]) =>
                /\ i > 1 /\ response # None
                /\ IF IsOutcomeNote(calls[i])
                   THEN IsPurge(calls[i - 1]) /\ purgeResult # "none"
                   ELSE IsDeletionCall(calls[i - 1])
          /\ IsDeletionCall(calls[i]) => \A j \in 1..(i - 1) : IsRecentCall(calls[j])
    /\ Len(PurgeCalls) <= 1
    /\ Len(NotifyCalls) <= 1
    /\ (pc = "done" /\ Len(PurgeCalls) = 1) =>
          purgeResult # "none" /\ IsOutcomeNote(calls[Len(calls)])

\* C17 as stated: the calls are awaited one after the other and the
\* recent-files lookup comes after the upstream call and its classification.
C17_OrderAsStated ==
    /\ AwaitedInOrder
    /\ \A i \in 1..Len(calls) :
          IsRecentCall(calls[i]) =>
             /\ response # None
             /\ \E j \in 1..(i - 1) : IsDeletionCall(calls[j])

\* C17, amended: the calls are awaited one after the other in the order
\* recent-files lookup (by-name route only, first), upstream deletion call,
\* purge call, notification call, response; the purge call never precedes the
\* answer to the deletion call, the notification never precedes the answer of
\* the purge API, and nothing is outstanding when the response is returned.
C17_Sequential ==
    /\ AwaitedInOrder
    /\ \A i \in 1..Len(calls) :
          IsRecentCall(calls[i]) => i = 1 /\ Route(request) = "name"
    /\ \A i \in 1..Len(calls) :
          (IsDeleteCall(calls[i]) /\ Route(request) = "name") =>
             i = 2 /\ IsRecentCall(calls[1]) /\ recent # None

\* C17 witness: the by-name route went through all four calls.
C17_Witness ==
    /\ IsDelete
    /\ Route(request) = "name"
    /\ Len(calls) = 4
    /\ IsRecentCall(calls[1])
    /\ IsDeleteCall(calls[2])
    /\ IsPurge(calls[3])
    /\ IsOutcomeNote(calls[4])
    /\ Terminal

\* C18: a DELETE whose path is not exactly /api/user/files/id/<positive
\* integer> or /api/user/files/name/<non-empty segment>, though it may contain
\* such a fragment, causes no synthesized delete call and no recent-files
\* lookup: it is relayed.
C18_ExactPathsOnly ==
    (/\ IsDelete
     /\ ~ExactIdPath(request.pathname)
     /\ ~ExactNamePath(request.pathname))
    =>
        /\ Len(DeleteCalls) = 0
        /\ Len(RecentCalls) = 0
        /\ (pc # "start" => calls[1] = RelayCall(request))

\* The calls an invocation with locals L makes when it is handled alone and
\* gets the answers L holds.
ExpectedAfterDeletion(L) ==
    <<PurgeCall(L.response.body)>>
        \o (IF L.purgeResult = "none" THEN <<>>
            ELSE IF L.purgeResult = "true"
            THEN <<NotifyCall("note", "Purged CF cache")>>
            ELSE <<NotifyCall("warning", "Failed to purge CF cache")>>)

ExpectedAfterDelete(L) ==
    IF L.response # None /\ L.response.body.kind \notin {"invalid", "null"}
    THEN ExpectedAfterDeletion(L)
    ELSE <<>>

ExpectedCalls(L) ==
    IF L.pc = "start" THEN <<>>
    ELSE IF L.request.method # "DELETE" THEN <<RelayCall(L.request)>>
    ELSE IF Route(L.request) = "id"
    THEN <<DeleteCall(FileIdOf(MatchFileId(L.request.pathname)), L.request.authorization)>>
            \o ExpectedAfterDelete(L)
    ELSE IF Route(L.request) = "name"
    THEN <<RecentCall(L.request.authorization)>>
            \o (IF L.recent # None /\ L.recent.status = 200 /\ L.recent.body.kind = "array"
                THEN LET foundFile == FindByName(L.recent.body.items,
                                          FileNameOf(MatchFileName(L.request.pathname)))
                     IN  IF foundFile.kind = "file"
                         THEN <<DeleteCall(Number(foundFile.file.id),
                                           L.request.authorization)>>
                                 \o ExpectedAfterDelete(L)
                         ELSE <<>>
                ELSE <<>>)
    ELSE <<RelayCall(L.request)>>
            \o (IF L.response = None THEN <<>>
                ELSE LET next == Reconcile(L.request.pathname, L.response)
                     IN  IF next.step = "purge" THEN ExpectedAfterDeletion(L)
                         ELSE IF next.step = "notify"
                         THEN <<NotifyCall("warning",
                                  "Unable to purge CF cache for Zipline bulk deletion")>>
                         ELSE <<>>)

\* Each of the two invocations made the calls, and returned the header, of
\* the same request handled alone.
InvocationsIndependent ==
    \A L \in {Local, other} :
        /\ L.calls = ExpectedCalls(L)
        /\ (L.pc = "done" /\ L.request.method = "DELETE" /\ Route(L.request) = "relay"
               /\ Len(SelectSeq(L.calls, IsPurge)) = 1)
           => L.returned.purgeHeader = HeaderOf(L.purgeResult)

\* The deletion an invocation asked for succeeded as a single-file deletion.
DeletedSingleFile(L) ==
    /\ L.request.method = "DELETE"
    /\ L.response # None
    /\ SingleFile(L.response)
    /\ Route(L.request) = "relay" => DeletionPathOf(L.request.pathname, L.response)

\* C19: two requests handled interleaved each make the calls of the request
\* handled alone, and each makes one purge call if its single-file deletion
\* succeeded and none otherwise, so that the purge calls are as many as the
\* successful single-file deletions.
C19_IndependentRequests ==
    /\ InvocationsIndependent
    /\ \A L \in {Local, other} :
          Len(SelectSeq(L.calls, IsPurge)) = (IF DeletedSingleFile(L) THEN 1 ELSE 0)

====
